---- MODULE Spec2Model ----
(***************************************************************************)
(* Geofence event engine of services/geofencing.py: the region registry    *)
(* (zones), the per-user containment state (user_states) and the event     *)
(* log (event_history) of GeofenceManager, with the geometry of GeoUtils.  *)
(*                                                                         *)
(* Coordinates are whole degrees on a small grid.  Distances are the       *)
(* values of the haversine formula at those grid points in metres, rounded *)
(* up, so that "distance <= radius" has the float comparison's value for   *)
(* every whole-metre radius.                                               *)
(***************************************************************************)
EXTENDS Integers, Sequences, FiniteSets, TLC

(* ------------------------------ bounds --------------------------------- *)
\* create_location_zones is handed 1..MaxPois locations
MaxPois == 2

\* polygons handed to point_in_polygon have 3..MaxVertices vertices
MaxVertices == 4

\* the wall clock read by datetime.now() takes the values 0..MaxTime
MaxTime == 1
\* check_location is not taken once the log would exceed MaxHistory events
MaxHistory == 2

(* --------------------------- value domains ----------------------------- *)
\* Optional[T]: None is the empty tuple, a present value x is <<x>>
None == <<>>
Some(x) == <<x>>

\* Coordinates(latitude, longitude)
Coordinates(lat, lon) == [latitude |-> lat, longitude |-> lon]

\* FenceType
CIRCULAR == "circular"
RECTANGULAR == "rectangular"
POLYGON == "polygon"

\* TriggerType
ENTER == "enter"
EXIT == "exit"
DWELL == "dwell"

\* x in lst, for a Python list
InList(x, lst) == \E i \in 1..Len(lst) : lst[i] = x

\* Python values kept in a zone's metadata: a str, a tuple of strs, a list
\* of strs, a set of strs
PyStr(s) == [type |-> "str", value |-> <<s>>]
PyTuple(items) == [type |-> "tuple", value |-> items]
PyList(items) == [type |-> "list", value |-> items]
PySet(items) == [type |-> "set", value |-> items]
PyBool(b) == [type |-> "bool", value |-> <<IF b THEN "True" ELSE "False">>]

\* GeofenceZone(...) followed by __post_init__: a missing location_ids
\* becomes [], missing triggers become [ENTER], a missing metadata becomes
\* {}; radius and bounds stay optional.  A dict is the sequence of its
\* <<key, value>> pairs
GeofenceZone(zone_id, name, fence_type, center, radius, bounds, location_ids, triggers, metadata) ==
    [zone_id |-> zone_id,
     name |-> name,
     fence_type |-> fence_type,
     center |-> center,
     radius |-> radius,
     bounds |-> bounds,
     location_ids |-> IF location_ids = None THEN <<>> ELSE location_ids[1],
     triggers |-> IF triggers = None THEN <<ENTER>> ELSE triggers[1],
     metadata |-> IF metadata = None THEN <<>> ELSE metadata[1]]

(* ------------------------------ geometry ------------------------------- *)
Abs(n) == IF n < 0 THEN -n ELSE n
Min(a, b) == IF a <= b THEN a ELSE b
Max(a, b) == IF a >= b THEN a ELSE b

\* GeoUtils.haversine_distance with R = 6371000, at whole-degree points of
\* latitude 0..2 and longitude difference 0..2, in metres rounded up
haversine_distance(coord1, coord2) ==
    LET lo == Min(coord1.latitude, coord2.latitude)
        hi == Max(coord1.latitude, coord2.latitude)
        dl == Abs(coord2.longitude - coord1.longitude)
    IN  CASE lo = 0 /\ hi = 0 -> <<0, 111195, 222390>>[dl + 1]
          [] lo = 0 /\ hi = 1 -> <<111195, 157250, 248630>>[dl + 1]
          [] lo = 0 /\ hi = 2 -> <<222390, 248630, 314475>>[dl + 1]
          [] lo = 1 /\ hi = 1 -> <<0, 111178, 222356>>[dl + 1]
          [] lo = 1 /\ hi = 2 -> <<111195, 157226, 248569>>[dl + 1]
          [] lo = 2 /\ hi = 2 -> <<0, 111128, 222255>>[dl + 1]

\* point_in_circle with "<" in place of "<="
point_in_circle_Open(point, center, radius) ==
    haversine_distance(point, center) < radius

\* GeoUtils.point_in_circle
point_in_circle(point, center, radius) ==
    haversine_distance(point, center) <= radius

\* GeoUtils.point_in_rectangle
point_in_rectangle(point, bounds) ==
    IF Len(bounds) # 2 THEN FALSE
    ELSE LET min_lat == Min(bounds[1].latitude, bounds[2].latitude)
             max_lat == Max(bounds[1].latitude, bounds[2].latitude)
             min_lon == Min(bounds[1].longitude, bounds[2].longitude)
             max_lon == Max(bounds[1].longitude, bounds[2].longitude)
         IN  /\ min_lat <= point.latitude /\ point.latitude <= max_lat
             /\ min_lon <= point.longitude /\ point.longitude <= max_lon

\* EdgeFlips with "y >= min(p1y, p2y)" in place of "y > min(p1y, p2y)"
EdgeFlips_Closed(x, y, p1, p2) ==
    LET dy == p2.latitude - p1.latitude
        lhs == (x - p1.longitude) * dy
        rhs == (y - p1.latitude) * (p2.longitude - p1.longitude)
    IN  /\ y >= Min(p1.latitude, p2.latitude)
        /\ y <= Max(p1.latitude, p2.latitude)
        /\ x <= Max(p1.longitude, p2.longitude)
        /\ \/ p1.longitude = p2.longitude
           \/ IF dy > 0 THEN lhs <= rhs ELSE lhs >= rhs

\* one turn of the loop of point_in_polygon: does the edge p1 -> p2 flip
\* "inside"?  x <= xinters, with
\* xinters = (y - p1y) * (p2x - p1x) / (p2y - p1y) + p1x, is compared after
\* multiplying by p2y - p1y (exact on whole-degree coordinates)
EdgeFlips(x, y, p1, p2) ==
    LET p1x == p1.longitude
        p1y == p1.latitude
        p2x == p2.longitude
        p2y == p2.latitude
        dy == p2y - p1y
        lhs == (x - p1x) * dy
        rhs == (y - p1y) * (p2x - p1x)
    IN  /\ y > Min(p1y, p2y)
        /\ y <= Max(p1y, p2y)
        /\ x <= Max(p1x, p2x)
        /\ \/ p1x = p2x
           \/ IF dy > 0 THEN lhs <= rhs ELSE lhs >= rhs

\* GeoUtils.point_in_polygon: ray casting, "inside" flips once per crossing
RECURSIVE PolygonCrossings(_, _, _)
PolygonCrossings(point, bounds, i) ==
    IF i > Len(bounds) THEN 0
    ELSE (IF EdgeFlips(point.longitude, point.latitude,
                       bounds[i], bounds[(i % Len(bounds)) + 1])
          THEN 1 ELSE 0) + PolygonCrossings(point, bounds, i + 1)

point_in_polygon(point, bounds) ==
    IF Len(bounds) < 3 THEN FALSE
    ELSE PolygonCrossings(point, bounds, 1) % 2 = 1

\* GeofenceManager._is_point_in_zone
is_point_in_zone(point, zone) ==
    CASE zone.fence_type = CIRCULAR -> point_in_circle(point, zone.center, zone.radius[1])
      [] zone.fence_type = RECTANGULAR -> point_in_rectangle(point, zone.bounds[1])
      [] zone.fence_type = POLYGON -> point_in_polygon(point, zone.bounds[1])
      [] OTHER -> FALSE

(* ------------------------------- inputs -------------------------------- *)
Users == {"u1"}
ZoneIds == {"A", "B"}
\* (0, 0) lies in the rectangle only, (1, 2) in the circle and the polygon only
Locations == {Coordinates(0, 0), Coordinates(1, 2)}

Square == <<Coordinates(0, 0), Coordinates(0, 2), Coordinates(2, 2), Coordinates(2, 0)>>

\* the zones handed to create_zone under the id zone_id by the callers of
\* the tracking specification
ZoneInputs(zone_id) ==
    IF zone_id = "A"
    THEN { GeofenceZone(zone_id, "n1", CIRCULAR, Coordinates(1, 1), Some(120000), None,
                        Some(<<"p1">>), Some(<<ENTER, EXIT>>), None),
           GeofenceZone(zone_id, "n2", CIRCULAR, Coordinates(1, 1), Some(120000), None,
                        None, Some(<<>>), None) }
    ELSE { GeofenceZone(zone_id, "n2", RECTANGULAR, Coordinates(0, 0), None,
                        Some(<<Coordinates(0, 0), Coordinates(1, 1)>>), None, None, None),
           GeofenceZone(zone_id, "n1", POLYGON, Coordinates(1, 1), None, Some(Square),
                        Some(<<"p1">>), Some(<<ENTER, EXIT>>), None) }

\* the zones handed to create_zone by the callers of the validation
\* specification: every shape, with and without its parameters
ShapeInputs(zone_id) ==
    { GeofenceZone(zone_id, "n1", CIRCULAR, Coordinates(1, 1), Some(120000), None,
                   None, Some(<<ENTER, EXIT>>), None),
      GeofenceZone(zone_id, "n1", CIRCULAR, Coordinates(1, 1), None, None,
                   None, Some(<<ENTER, EXIT>>), None),
      GeofenceZone(zone_id, "n1", CIRCULAR, Coordinates(1, 1), Some(0), None,
                   None, Some(<<ENTER, EXIT>>), None),
      GeofenceZone(zone_id, "n1", CIRCULAR, Coordinates(1, 1), Some(-120000), None,
                   None, Some(<<ENTER, EXIT>>), None),
      GeofenceZone(zone_id, "n1", RECTANGULAR, Coordinates(0, 0), None,
                   Some(<<Coordinates(0, 0), Coordinates(1, 1)>>), None, Some(<<ENTER, EXIT>>), None),
      GeofenceZone(zone_id, "n1", RECTANGULAR, Coordinates(0, 0), None, None,
                   None, Some(<<ENTER, EXIT>>), None),
      GeofenceZone(zone_id, "n1", RECTANGULAR, Coordinates(0, 0), None, Some(<<>>),
                   None, Some(<<ENTER, EXIT>>), None),
      GeofenceZone(zone_id, "n1", RECTANGULAR, Coordinates(0, 0), None,
                   Some(<<Coordinates(1, 1)>>), None, Some(<<ENTER, EXIT>>), None),
      GeofenceZone(zone_id, "n1", POLYGON, Coordinates(1, 1), None, Some(Square),
                   None, Some(<<ENTER, EXIT>>), None),
      GeofenceZone(zone_id, "n1", POLYGON, Coordinates(1, 1), None, None,
                   None, Some(<<ENTER, EXIT>>), None),
      GeofenceZone(zone_id, "n1", POLYGON, Coordinates(1, 1), None,
                   Some(<<Coordinates(0, 0), Coordinates(2, 2)>>), None,
                   Some(<<ENTER, EXIT>>), None) }

(* -------------------------------- state -------------------------------- *)
VARIABLES
    zones,          \* GeofenceManager.zones: the regions in insertion order
    user_states,    \* GeofenceManager.user_states: user id -> tracked state
    event_history,  \* GeofenceManager.event_history
    now,            \* the wall clock read by datetime.now()
    result,         \* the last call and what it returned
    tasks           \* the requests in flight at the server: task id -> frame

vars == <<zones, user_states, event_history, now, result, tasks>>

\* the requests the server can have in flight at a time
TaskIds == {"t1", "t2"}

\* GeofenceManager.__init__
Init ==
    /\ zones = <<>>
    /\ user_states = [u \in {} |-> {}]
    /\ event_history = <<>>
    /\ now = 0
    /\ result = [op |-> "init"]
    /\ tasks = [t \in TaskIds |-> [pc |-> "idle"]]

(* ------------------------------ registry ------------------------------- *)
\* zone_id in self.zones
HasZone(zs, zone_id) == \E i \in 1..Len(zs) : zs[i].zone_id = zone_id

\* self.zones.get(zone_id), for an id that is present
ZoneOf(zs, zone_id) == zs[CHOOSE i \in 1..Len(zs) : zs[i].zone_id = zone_id]

\* "not zone.radius": None or 0
NotRadius(zone) == zone.radius = None \/ zone.radius[1] = 0
\* "not zone.bounds": None or the empty list
NotBounds(zone) == zone.bounds = None \/ zone.bounds[1] = <<>>

\* the value create_zone returns: False for a known id and for the two
\* ValueErrors, which its except clause turns into False
create_zone_returns(zs, zone) ==
    /\ ~HasZone(zs, zone.zone_id)
    /\ ~(zone.fence_type = CIRCULAR /\ NotRadius(zone))
    /\ ~(zone.fence_type \in {RECTANGULAR, POLYGON} /\ NotBounds(zone))

\* create_zone_zones that puts the new zone first instead of last
create_zone_zones_Front(zs, zone) ==
    IF /\ ~HasZone(zs, zone.zone_id)
       /\ ~(zone.fence_type = CIRCULAR /\ NotRadius(zone))
       /\ ~(zone.fence_type \in {RECTANGULAR, POLYGON} /\ NotBounds(zone))
    THEN <<zone>> \o zs
    ELSE zs

\* create_zone_zones without the test "zone.zone_id in self.zones": a valid
\* zone replaces the one stored under its id
create_zone_zones_Overwrite(zs, zone) ==
    IF /\ ~(zone.fence_type = CIRCULAR /\ NotRadius(zone))
       /\ ~(zone.fence_type \in {RECTANGULAR, POLYGON} /\ NotBounds(zone))
    THEN Append(SelectSeq(zs, LAMBDA z : z.zone_id # zone.zone_id), zone)
    ELSE zs

\* self.zones after create_zone
create_zone_zones(zs, zone) ==
    IF create_zone_returns(zs, zone) THEN Append(zs, zone) ELSE zs

\* GeofenceManager.create_zone
create_zone(zone) ==
    /\ zones' = create_zone_zones(zones, zone)
    /\ result' = [op |-> "create_zone", ok |-> create_zone_returns(zones, zone),
                  zone_id |-> zone.zone_id]
    /\ UNCHANGED <<user_states, event_history, now, tasks>>

\* delete_zone_zones that leaves the dict alone
delete_zone_zones_Keep(zs, zone_id) == zs

\* self.zones after delete_zone: "del self.zones[zone_id]"
delete_zone_zones(zs, zone_id) ==
    SelectSeq(zs, LAMBDA z : z.zone_id # zone_id)

\* delete_zone that also takes the id out of every user's current zones
delete_zone_Purging(zone_id) ==
    /\ zones' = SelectSeq(zones, LAMBDA z : z.zone_id # zone_id)
    /\ user_states' = [u \in DOMAIN user_states |->
                          [user_states[u] EXCEPT !.current_zones = @ \ {zone_id}]]
    /\ result' = [op |-> "delete_zone", ok |-> HasZone(zones, zone_id),
                  zone_id |-> zone_id]
    /\ UNCHANGED <<event_history, now, tasks>>

\* GeofenceManager.delete_zone
delete_zone(zone_id) ==
    /\ zones' = delete_zone_zones(zones, zone_id)
    /\ result' = [op |-> "delete_zone", ok |-> HasZone(zones, zone_id),
                  zone_id |-> zone_id]
    /\ UNCHANGED <<user_states, event_history, now, tasks>>

(* ---------------------------- export, import --------------------------- *)
\* GeofenceZone.to_dict: an empty bounds list is written as null like a
\* missing one; the metadata dict is handed on as it is
to_dict(zone) ==
    [zone_id |-> zone.zone_id,
     name |-> zone.name,
     fence_type |-> zone.fence_type,
     center |-> zone.center,
     radius |-> zone.radius,
     bounds |-> IF NotBounds(zone) THEN None ELSE zone.bounds,
     location_ids |-> zone.location_ids,
     triggers |-> zone.triggers,
     metadata |-> zone.metadata]

\* from_dict that reads an empty triggers list as a missing one
from_dict_DefaultTriggers(data) ==
    GeofenceZone(data.zone_id, data.name, data.fence_type, data.center, data.radius,
                 IF data.bounds = None \/ data.bounds[1] = <<>> THEN None ELSE data.bounds,
                 Some(data.location_ids),
                 IF data.triggers = <<>> THEN None ELSE Some(data.triggers),
                 Some(data.metadata))

\* GeofenceZone.from_dict on a document written by export_zones, where every
\* key is present
from_dict(data) ==
    GeofenceZone(data.zone_id, data.name, data.fence_type, data.center, data.radius,
                 IF data.bounds = None \/ data.bounds[1] = <<>> THEN None ELSE data.bounds,
                 Some(data.location_ids), Some(data.triggers), Some(data.metadata))

\* json.dump raises TypeError on a set
JsonSerializable(value) == value.type # "set"

\* what json.load reads back for a value json.dump wrote: a tuple is written
\* as an array and comes back as a list
JsonValue(value) == IF value.type = "tuple" THEN PyList(value.value) ELSE value

\* json.dump followed by json.load on one zone's dict
JsonZone(data) ==
    [data EXCEPT !.metadata =
        [k \in 1..Len(data.metadata) |-> <<data.metadata[k][1], JsonValue(data.metadata[k][2])>>]]

\* GeofenceManager.export_zones: the value returned and what json.load gets
\* from the file afterwards; a TypeError in json.dump leaves a truncated file
\* that does not parse (None)
export_zones_returns(zs) ==
    \A i \in 1..Len(zs) : \A k \in 1..Len(zs[i].metadata) :
        JsonSerializable(zs[i].metadata[k][2])

export_zones_file(zs) ==
    IF export_zones_returns(zs)
    THEN Some([zones |-> [i \in 1..Len(zs) |-> JsonZone(to_dict(zs[i]))],
               total_zones |-> Len(zs)])
    ELSE None

\* the loop of import_zones: from_dict and create_zone for each entry
RECURSIVE import_zones_loop(_, _)
import_zones_loop(zs, zones_data) ==
    IF zones_data = <<>> THEN zs
    ELSE import_zones_loop(create_zone_zones(zs, from_dict(Head(zones_data))),
                           Tail(zones_data))

\* GeofenceManager.export_zones
export_zones ==
    /\ result' = [op |-> "export_zones", ok |-> export_zones_returns(zones),
                  file |-> export_zones_file(zones)]
    /\ UNCHANGED <<zones, user_states, event_history, now, tasks>>

\* GeofenceManager.import_zones of a fresh manager, reading the file the last
\* export_zones wrote; result.zones is the fresh manager's registry afterwards
import_zones ==
    /\ result.op = "export_zones"
    /\ result' = [op |-> "import_zones", ok |-> result.file # None,
                  zones |-> IF result.file = None THEN <<>>
                            ELSE import_zones_loop(<<>>, result.file[1].zones)]
    /\ UNCHANGED <<zones, user_states, event_history, now, tasks>>

(* ----------------------------- bulk creation ---------------------------- *)
\* a location dict as create_location_zones reads it: "id" and "coordinates"
\* may be missing (None), and so may "lat" or "lng" inside "coordinates"
Location(id, primary_name, category, coordinates) ==
    [id |-> id, primary_name |-> primary_name, category |-> category,
     coordinates |-> coordinates]

\* "if not coords or 'lat' not in coords or 'lng' not in coords: continue"
HasCoordinates(location) ==
    /\ location.coordinates # None
    /\ location.coordinates[1].lat # None
    /\ location.coordinates[1].lng # None

\* f"location_{location.get('id', 'unknown')}"
LocationZoneId(location) ==
    "location_" \o (IF location.id = None THEN "unknown" ELSE location.id[1])

\* LocationZone that takes the radius 100 whatever default_radius is
LocationZone_FixedRadius(location, default_radius) ==
    GeofenceZone(LocationZoneId(location), location.primary_name \o " area", CIRCULAR,
                 Coordinates(location.coordinates[1].lat[1], location.coordinates[1].lng[1]),
                 Some(100),
                 None,
                 Some(<<IF location.id = None THEN "None" ELSE location.id[1]>>),
                 Some(<<ENTER, EXIT>>),
                 Some(<< <<"location_name", PyStr(location.primary_name)>>,
                         <<"category", PyStr(location.category)>>,
                         <<"auto_generated", PyBool(TRUE)>> >>))

\* the GeofenceZone built for a location that has coordinates; the name is
\* primary_name followed by a fixed suffix, and location.get("id") of a
\* location without id is None, written "None"
LocationZone(location, default_radius) ==
    GeofenceZone(LocationZoneId(location), location.primary_name \o " area", CIRCULAR,
                 Coordinates(location.coordinates[1].lat[1], location.coordinates[1].lng[1]),
                 Some(default_radius),
                 None,
                 Some(<<IF location.id = None THEN "None" ELSE location.id[1]>>),
                 Some(<<ENTER, EXIT>>),
                 Some(<< <<"location_name", PyStr(location.primary_name)>>,
                         <<"category", PyStr(location.category)>>,
                         <<"auto_generated", PyBool(TRUE)>> >>))

\* the loop of create_location_zones from the registry zs on: the registry
\* and the list created_zones after the last location
RECURSIVE create_location_zones_loop(_, _, _, _)
create_location_zones_loop(zs, created_zones, locations, default_radius) ==
    IF locations = <<>> THEN [zones |-> zs, created_zones |-> created_zones]
    ELSE LET location == Head(locations)
         IN  IF ~HasCoordinates(location)
             THEN create_location_zones_loop(zs, created_zones, Tail(locations), default_radius)
             ELSE LET zone == LocationZone(location, default_radius)
                  IN  create_location_zones_loop(
                          create_zone_zones(zs, zone),
                          IF create_zone_returns(zs, zone) THEN Append(created_zones, zone)
                          ELSE created_zones,
                          Tail(locations), default_radius)

\* GeofenceManager.create_location_zones
create_location_zones(locations, default_radius) ==
    LET done == create_location_zones_loop(zones, <<>>, locations, default_radius)
    IN  /\ zones' = done.zones
        /\ result' = [op |-> "create_location_zones", locations |-> locations,
                      default_radius |-> default_radius,
                      created_zones |-> done.created_zones]
        /\ UNCHANGED <<user_states, event_history, now, tasks>>

(* --------------------------- position reports -------------------------- *)
\* the orders in which Python may iterate over the set s
Orderings(s) ==
    {o \in [1..Cardinality(s) -> s] : \A i, j \in 1..Cardinality(s) : i # j => o[i] # o[j]}

\* PreviousZones that starts an unseen user from the zones of the users
\* already tracked
PreviousZones_Shared(us, user_id) ==
    IF user_id \in DOMAIN us THEN us[user_id].current_zones
    ELSE UNION {us[u].current_zones : u \in DOMAIN us}

\* user_state["current_zones"] at the start of check_location; an unseen
\* user starts from the empty set
PreviousZones(us, user_id) ==
    IF user_id \in DOMAIN us THEN us[user_id].current_zones ELSE {}

\* CurrentZones that adds a zone only when the zone has a trigger
CurrentZones_TriggeredOnly(zs, location) ==
    {zs[i].zone_id : i \in {j \in 1..Len(zs) :
        is_point_in_zone(location, zs[j]) /\ zs[j].triggers # <<>>}}

\* current_zones at the end of the first loop of check_location
CurrentZones(zs, location) ==
    {zs[i].zone_id : i \in {j \in 1..Len(zs) : is_point_in_zone(location, zs[j])}}

\* GeofenceEvent that records the zone's centre as the user's location
GeofenceEvent_AtCentre(user_id, zone, trigger_type, location, current_time, suffix) ==
    [event_id |-> user_id \o "_" \o zone.zone_id \o "_" \o ToString(current_time) \o suffix,
     zone_id |-> zone.zone_id,
     trigger_type |-> trigger_type,
     user_location |-> zone.center,
     timestamp |-> current_time,
     user_id |-> user_id,
     additional_data |-> [zone_name |-> zone.name, location_ids |-> zone.location_ids]]

\* GeofenceEvent without the zone's name in additional_data
GeofenceEvent_Unnamed(user_id, zone, trigger_type, location, current_time, suffix) ==
    [event_id |-> user_id \o "_" \o zone.zone_id \o "_" \o ToString(current_time) \o suffix,
     zone_id |-> zone.zone_id,
     trigger_type |-> trigger_type,
     user_location |-> location,
     timestamp |-> current_time,
     user_id |-> user_id,
     additional_data |-> [zone_name |-> "", location_ids |-> zone.location_ids]]

\* GeofenceEvent(...) as built in check_location; suffix is "" or "_exit"
GeofenceEvent(user_id, zone, trigger_type, location, current_time, suffix) ==
    [event_id |-> user_id \o "_" \o zone.zone_id \o "_" \o ToString(current_time) \o suffix,
     zone_id |-> zone.zone_id,
     trigger_type |-> trigger_type,
     user_location |-> location,
     timestamp |-> current_time,
     user_id |-> user_id,
     additional_data |-> [zone_name |-> zone.name, location_ids |-> zone.location_ids]]

\* EmitsEnter without the test "zone.zone_id not in previous_zones"
EmitsEnter_Repeated(zone, location, previous_zones) ==
    /\ is_point_in_zone(location, zone)
    /\ InList(ENTER, zone.triggers)

\* does the first loop emit an ENTER event for zone?
EmitsEnter(zone, location, previous_zones) ==
    /\ is_point_in_zone(location, zone)
    /\ zone.zone_id \notin previous_zones
    /\ InList(ENTER, zone.triggers)

\* EnterEvents that also emits a DWELL event for every zone with the DWELL
\* trigger that contains the position and contained the last one
EnterEvents_Dwelling(zs, user_id, location, current_time, previous_zones) ==
    LET entered == SelectSeq(zs, LAMBDA z :
                       \/ EmitsEnter(z, location, previous_zones)
                       \/ /\ is_point_in_zone(location, z)
                          /\ z.zone_id \in previous_zones
                          /\ InList(DWELL, z.triggers))
    IN  [i \in 1..Len(entered) |->
            GeofenceEvent(user_id, entered[i],
                          IF entered[i].zone_id \in previous_zones THEN DWELL ELSE ENTER,
                          location, current_time, "")]

\* the events of the first loop of check_location, in registry order
EnterEvents(zs, user_id, location, current_time, previous_zones) ==
    LET entered == SelectSeq(zs, LAMBDA z : EmitsEnter(z, location, previous_zones))
    IN  [i \in 1..Len(entered) |->
            GeofenceEvent(user_id, entered[i], ENTER, location, current_time, "")]

\* EmitsExit without the test "TriggerType.EXIT in zone.triggers"
EmitsExit_AnyTrigger(zs, zone_id, current_zones) ==
    /\ zone_id \notin current_zones
    /\ HasZone(zs, zone_id)

\* EmitsExit without the test "zone_id not in current_zones"
EmitsExit_Stale(zs, zone_id, current_zones) ==
    /\ HasZone(zs, zone_id)
    /\ InList(EXIT, ZoneOf(zs, zone_id).triggers)

\* does the second loop emit an EXIT event for zone_id?
EmitsExit(zs, zone_id, current_zones) ==
    /\ zone_id \notin current_zones
    /\ HasZone(zs, zone_id)
    /\ InList(EXIT, ZoneOf(zs, zone_id).triggers)

\* ExitEvents that also emits an EXIT event for an id that is no longer
\* in self.zones
ExitEvents_Ghost(zs, user_id, location, current_time, previous_order, current_zones) ==
    LET exited == SelectSeq(previous_order, LAMBDA id :
                      id \notin current_zones
                      /\ (HasZone(zs, id) => InList(EXIT, ZoneOf(zs, id).triggers)))
    IN  [i \in 1..Len(exited) |->
            GeofenceEvent(user_id,
                          IF HasZone(zs, exited[i]) THEN ZoneOf(zs, exited[i])
                          ELSE [zone_id |-> exited[i], name |-> "", location_ids |-> <<>>],
                          EXIT, location, current_time, "_exit")]

\* the events of the second loop of check_location, which visits
\* previous_zones in the order previous_order
ExitEvents(zs, user_id, location, current_time, previous_order, current_zones) ==
    LET exited == SelectSeq(previous_order, LAMBDA id : EmitsExit(zs, id, current_zones))
    IN  [i \in 1..Len(exited) |->
            GeofenceEvent(user_id, ZoneOf(zs, exited[i]), EXIT, location, current_time, "_exit")]

\* UpdatedUserState that keeps the position and forgets the zones
UpdatedUserState_Forgetful(zs, location, current_time) ==
    [current_zones |-> {},
     last_location |-> location,
     last_check |-> current_time]

\* self.user_states[user_id] at the end of check_location
UpdatedUserState(zs, location, current_time) ==
    [current_zones |-> CurrentZones(zs, location),
     last_location |-> location,
     last_check |-> current_time]

\* AppendEvents that assigns the log instead of appending to it
AppendEvents_Replace(history, events) == events

\* self.event_history after the events of one report were appended
AppendEvents(history, events) == history \o events

\* GeofenceManager.check_location; result.repeat tells that the call repeats
\* the call before it (same user, same location, nothing in between)
check_location(user_id, location) ==
    LET current_time == now
        previous_zones == PreviousZones(user_states, user_id)
        current_zones == CurrentZones(zones, location)
        repeat == /\ result.op = "check_location"
                  /\ result.user_id = user_id
                  /\ result.location = location
    IN  \E previous_order \in Orderings(previous_zones) :
            LET events == EnterEvents(zones, user_id, location, current_time, previous_zones)
                          \o ExitEvents(zones, user_id, location, current_time,
                                        previous_order, current_zones)
            IN  /\ Len(event_history) + Len(events) <= MaxHistory
                /\ event_history' = AppendEvents(event_history, events)
                /\ user_states' = (user_id :> UpdatedUserState(zones, location, current_time))
                                  @@ user_states
                /\ result' = [op |-> "check_location", user_id |-> user_id,
                              location |-> location, events |-> events,
                              repeat |-> repeat]
                /\ UNCHANGED <<zones, now, tasks>>

(* ------------------------------- queries ------------------------------- *)
\* GeofenceManager.get_zone
get_zone(zs, zone_id) ==
    IF HasZone(zs, zone_id) THEN Some(ZoneOf(zs, zone_id)) ELSE None

\* GeofenceManager.list_zones: list(self.zones.values())
list_zones(zs) == zs

\* GeofenceManager.get_user_current_zones, as the set of the ids it lists
get_user_current_zones(us, user_id) ==
    IF user_id \in DOMAIN us THEN us[user_id].current_zones ELSE {}

\* effective_distance of get_nearby_zones
EffectiveDistance(location, zone) ==
    LET distance == haversine_distance(location, zone.center)
    IN  IF zone.fence_type = CIRCULAR THEN Max(0, distance - zone.radius[1]) ELSE distance

\* list.sort(key=lambda x: x[1]): a stable sort, here by insertion
RECURSIVE InsertByDistance(_, _)
InsertByDistance(sorted, pair) ==
    IF sorted = <<>> THEN <<pair>>
    ELSE IF sorted[Len(sorted)][2] <= pair[2] THEN Append(sorted, pair)
    ELSE Append(InsertByDistance(SubSeq(sorted, 1, Len(sorted) - 1), pair), sorted[Len(sorted)])

\* SortByDistance that leaves the list in registry order
SortByDistance_Unsorted(pairs) == pairs

RECURSIVE SortByDistance(_)
SortByDistance(pairs) ==
    IF pairs = <<>> THEN <<>>
    ELSE InsertByDistance(SortByDistance(SubSeq(pairs, 1, Len(pairs) - 1)), pairs[Len(pairs)])

\* GeofenceManager.get_nearby_zones: the (zone, distance) pairs
get_nearby_zones(zs, location, max_distance) ==
    LET near == SelectSeq(zs, LAMBDA z : EffectiveDistance(location, z) <= max_distance)
    IN  SortByDistance([i \in 1..Len(near) |->
                            <<near[i], haversine_distance(location, near[i].center)>>])

\* "if user_id and ...": a filter that is None or "" filters nothing
Truthy(filter) == filter # None /\ filter[1] # ""

\* get_event_history without the time cutoff
get_event_history_NoCutoff(history, current, user_id, zone_id, hours) ==
    SelectSeq(history, LAMBDA event :
        /\ ~(Truthy(user_id) /\ event.user_id # user_id[1])
        /\ ~(Truthy(zone_id) /\ event.zone_id # zone_id[1]))

\* get_event_history without the zone filter
get_event_history_AnyZone(history, current, user_id, zone_id, hours) ==
    SelectSeq(history, LAMBDA event :
        /\ ~(event.timestamp < current - hours)
        /\ ~(Truthy(user_id) /\ event.user_id # user_id[1]))

\* GeofenceManager.get_event_history called when datetime.now() is current;
\* timedelta(hours=1) is one unit of the clock
get_event_history(history, current, user_id, zone_id, hours) ==
    LET cutoff_time == current - hours
    IN  SelectSeq(history, LAMBDA event :
            /\ ~(event.timestamp < cutoff_time)
            /\ ~(Truthy(user_id) /\ event.user_id # user_id[1])
            /\ ~(Truthy(zone_id) /\ event.zone_id # zone_id[1]))

(* -------------------------------- clock -------------------------------- *)
\* the wall clock moves on between two calls
Tick ==
    /\ now < MaxTime
    /\ now' = now + 1
    /\ UNCHANGED <<zones, user_states, event_history, result, tasks>>

(* ---------------------------- specification ---------------------------- *)
Next ==
    \/ \E zone_id \in ZoneIds : \E zone \in ZoneInputs(zone_id) : create_zone(zone)
    \/ \E zone_id \in ZoneIds : delete_zone(zone_id)
    \/ \E user_id \in Users : \E location \in Locations : check_location(user_id, location)
    \/ Tick

Spec == Init /\ [][Next]_vars

\* the callers of the validation specification: zones of every shape, with
\* and without the parameters of the shape, and reports at one position
NextValidation ==
    \/ \E zone_id \in ZoneIds : \E zone \in ShapeInputs(zone_id) : create_zone(zone)
    \/ \E zone_id \in ZoneIds : delete_zone(zone_id)
    \/ \E user_id \in Users : \E location \in Locations : check_location(user_id, location)

SpecValidation == Init /\ [][NextValidation]_vars

\* the callers of the history specification: two users report positions in
\* and out of two regions while the clock moves on
AllUsers == {"u1", "u2"}

HistoryInputs(zone_id) ==
    IF zone_id = "A"
    THEN { GeofenceZone(zone_id, "n1", CIRCULAR, Coordinates(1, 1), Some(120000), None,
                        Some(<<"p1">>), Some(<<ENTER, EXIT>>), None) }
    ELSE { GeofenceZone(zone_id, "n2", RECTANGULAR, Coordinates(0, 0), None,
                        Some(<<Coordinates(0, 0), Coordinates(1, 1)>>), None,
                        Some(<<ENTER, EXIT>>), None) }

NextHistory ==
    \/ \E zone_id \in ZoneIds : \E zone \in HistoryInputs(zone_id) : create_zone(zone)
    \/ \E zone_id \in {"A"} : delete_zone(zone_id)
    \/ \E user_id \in AllUsers : \E location \in Locations : check_location(user_id, location)
    \/ Tick

SpecHistory == Init /\ [][NextHistory]_vars

\* the zones of the export specification: metadata of the kinds callers pass
\* and the optional fields in each of their states
RoundTripInputs(zone_id) ==
    IF zone_id = "A"
    THEN { GeofenceZone(zone_id, "n1", CIRCULAR, Coordinates(1, 1), Some(120000), None,
                        Some(<<"p1">>), Some(<<ENTER, EXIT>>),
                        Some(<< <<"category", PyStr("shrine")>>, <<"tags", PyList(<<"a", "b">>)>> >>)),
           GeofenceZone(zone_id, "n2", CIRCULAR, Coordinates(1, 1), Some(120000), Some(<<>>),
                        None, Some(<<>>), None),
           GeofenceZone(zone_id, "n3", CIRCULAR, Coordinates(1, 1), Some(120000), None,
                        None, None, Some(<< <<"span", PyTuple(<<"a", "b">>)>> >>)),
           GeofenceZone(zone_id, "n4", CIRCULAR, Coordinates(1, 1), Some(120000), None,
                        None, None, Some(<< <<"tags", PySet(<<"a">>)>> >>)) }
    ELSE { GeofenceZone(zone_id, "n1", RECTANGULAR, Coordinates(0, 0), Some(0),
                        Some(<<Coordinates(0, 0), Coordinates(1, 1)>>), None, Some(<<>>), None),
           GeofenceZone(zone_id, "n2", POLYGON, Coordinates(0, 0), None, Some(Square),
                        Some(<<"p2">>), Some(<<DWELL>>),
                        Some(<< <<"category", PyStr("temple")>> >>)),
           GeofenceZone(zone_id, "n3", RECTANGULAR, Coordinates(0, 0), None, None,
                        None, None, None) }

NextRoundTrip ==
    \/ \E zone_id \in ZoneIds : \E zone \in RoundTripInputs(zone_id) : create_zone(zone)
    \/ \E zone_id \in ZoneIds : delete_zone(zone_id)
    \/ export_zones
    \/ import_zones

SpecRoundTrip == Init /\ [][NextRoundTrip]_vars

\* the callers of the circle specification: circles of either id around
\* three centres, with radii equal to distances between points of the grid,
\* and reports from every point of the grid
GridPoints == {Coordinates(lat, lon) : lat \in 0..2, lon \in 0..2}
CircleCentres == {Coordinates(1, 1), Coordinates(2, 1), Coordinates(0, 0)}
CircleRadii == {111178, 111195, 157226}

CircleInputs(zone_id) ==
    { GeofenceZone(zone_id, "n1", CIRCULAR, center, Some(radius), None, None, Some(<<>>), None) :
        center \in CircleCentres, radius \in CircleRadii }

NextCircle ==
    \/ \E zone_id \in ZoneIds : \E zone \in CircleInputs(zone_id) : create_zone(zone)
    \/ \E zone_id \in ZoneIds : delete_zone(zone_id)
    \/ \E user_id \in Users : \E location \in GridPoints : check_location(user_id, location)

SpecCircle == Init /\ [][NextCircle]_vars

\* point_in_polygon as a function of its arguments: the vertices are points
\* of a grid in any order, repeated vertices included, and the point is
\* taken from that grid and one step around it
PolygonVertices == {Coordinates(lat, lon) : lat \in 0..2, lon \in 0..2}
PolygonPoints == {Coordinates(lat, lon) : lat \in -1..3, lon \in -1..3}
PolygonInputs ==
    UNION {[1..n -> PolygonVertices] : n \in 3..MaxVertices}

InitPolygon ==
    /\ zones = <<>>
    /\ user_states = [u \in {} |-> {}]
    /\ event_history = <<>>
    /\ now = 0
    /\ \E point \in PolygonPoints : \E bounds \in PolygonInputs :
          result = [op |-> "input", point |-> point, bounds |-> bounds]
    /\ tasks = [t \in TaskIds |-> [pc |-> "idle"]]

\* a call of GeoUtils.point_in_polygon
point_in_polygon_call ==
    /\ result.op = "input"
    /\ result' = [op |-> "point_in_polygon", point |-> result.point,
                  bounds |-> result.bounds,
                  inside |-> point_in_polygon(result.point, result.bounds)]
    /\ UNCHANGED <<zones, user_states, event_history, now, tasks>>

NextPolygon == point_in_polygon_call

SpecPolygon == InitPolygon /\ [][NextPolygon]_vars

\* the callers of the dwell specification: regions whose triggers include
\* DWELL, alone and next to ENTER and EXIT
DwellInputs(zone_id) ==
    IF zone_id = "A"
    THEN { GeofenceZone(zone_id, "n1", CIRCULAR, Coordinates(1, 1), Some(120000), None,
                        None, Some(<<ENTER, EXIT, DWELL>>), None),
           GeofenceZone(zone_id, "n2", CIRCULAR, Coordinates(1, 1), Some(120000), None,
                        None, Some(<<DWELL>>), None) }
    ELSE { GeofenceZone(zone_id, "n1", RECTANGULAR, Coordinates(0, 0), None,
                        Some(<<Coordinates(0, 0), Coordinates(1, 1)>>), None,
                        Some(<<DWELL, ENTER>>), None) }

NextDwell ==
    \/ \E zone_id \in ZoneIds : \E zone \in DwellInputs(zone_id) : create_zone(zone)
    \/ \E zone_id \in ZoneIds : delete_zone(zone_id)
    \/ \E user_id \in Users : \E location \in Locations : check_location(user_id, location)
    \/ Tick

SpecDwell == Init /\ [][NextDwell]_vars

\* the callers of the episode specification: regions with the ENTER and
\* EXIT triggers are created and never deleted while two users move
NextEpisodes ==
    \/ \E zone_id \in ZoneIds : \E zone \in HistoryInputs(zone_id) : create_zone(zone)
    \/ \E user_id \in AllUsers : \E location \in Locations : check_location(user_id, location)
    \/ Tick

SpecEpisodes == Init /\ [][NextEpisodes]_vars

\* the callers of the bulk specification: locations with and without id and
\* coordinates, two of them with the same id, a default radius that
\* create_zone accepts and one it rejects, and a region that holds the id of
\* a location beforehand
LocationInputs ==
    { Location(Some("p1"), "shrine", "jinja", Some([lat |-> Some(1), lng |-> Some(1)])),
      Location(Some("p1"), "annex", "jinja", Some([lat |-> Some(2), lng |-> Some(2)])),
      Location(Some("p2"), "temple", "tera", None),
      Location(Some("p3"), "garden", "park", Some([lat |-> Some(1), lng |-> None])),
      Location(None, "gate", "torii", Some([lat |-> Some(0), lng |-> Some(2)])) }

LocationLists == UNION {[1..n -> LocationInputs] : n \in 1..MaxPois}
DefaultRadii == {120000, 0}
LocationZoneIds == {"location_p1", "location_unknown"}

BulkInputs ==
    { GeofenceZone("location_p1", "n1", RECTANGULAR, Coordinates(0, 0), None,
                   Some(<<Coordinates(0, 0), Coordinates(1, 1)>>), None, None, None) }

NextBulk ==
    \/ \E zone \in BulkInputs : create_zone(zone)
    \/ \E zone_id \in LocationZoneIds : delete_zone(zone_id)
    \/ \E locations \in LocationLists : \E default_radius \in DefaultRadii :
          create_location_zones(locations, default_radius)

SpecBulk == Init /\ [][NextBulk]_vars

(* ------------------------------- server -------------------------------- *)
\* The API serves every geofence request in an "async def" handler that calls
\* the manager without an await: the event loop runs a handler from its first
\* line to its return before it runs another one.  A task is a request in
\* flight; its frame holds the locals of check_location while the handler is
\* at "scan" (first loop), "exits" (second loop) or "update" (state write).
Busy == {"scan", "exits", "update"}
Idle == [pc |-> "idle"]

\* a scheduler that may switch to a report at any point of another handler
MayRun_Preemptive(t) == TRUE

\* may the handler of report t take a step?  Not while another handler is
\* between its first line and its return
MayRun(t) == \A o \in TaskIds \ {t} : tasks[o].pc \notin Busy

\* a scheduler that may run a registry write at any point of a report
MayWrite_Preemptive(t) == TRUE

\* may the handler of the registry write t run?
MayWrite(t) == \A o \in TaskIds \ {t} : tasks[o].pc \notin Busy

\* the requests clients send
Requests ==
    {[pc |-> "pending", op |-> "check_location", user_id |-> user_id, location |-> location] :
        user_id \in Users, location \in Locations}
    \cup {[pc |-> "pending", op |-> "create_zone", zone |-> zone] :
        zone \in UNION {HistoryInputs(zone_id) : zone_id \in ZoneIds}}
    \cup {[pc |-> "pending", op |-> "delete_zone", zone_id |-> zone_id] : zone_id \in ZoneIds}

\* a request arrives while the server may be busy with another one
receive(t, request) ==
    /\ tasks[t].pc = "idle"
    /\ tasks' = [tasks EXCEPT ![t] = request]
    /\ UNCHANGED <<zones, user_states, event_history, now, result>>

\* POST /geofence/zones: create_geofence_zone calls manager.create_zone
create_geofence_zone(t) ==
    /\ tasks[t].pc = "pending" /\ tasks[t].op = "create_zone"
    /\ MayWrite(t)
    /\ zones' = create_zone_zones(zones, tasks[t].zone)
    /\ result' = [op |-> "create_zone", ok |-> create_zone_returns(zones, tasks[t].zone),
                  zone_id |-> tasks[t].zone.zone_id]
    /\ tasks' = [tasks EXCEPT ![t] = Idle]
    /\ UNCHANGED <<user_states, event_history, now>>

\* DELETE /geofence/zones/{id}: delete_geofence_zone calls manager.delete_zone
delete_geofence_zone(t) ==
    /\ tasks[t].pc = "pending" /\ tasks[t].op = "delete_zone"
    /\ MayWrite(t)
    /\ zones' = delete_zone_zones(zones, tasks[t].zone_id)
    /\ result' = [op |-> "delete_zone", ok |-> HasZone(zones, tasks[t].zone_id),
                  zone_id |-> tasks[t].zone_id]
    /\ tasks' = [tasks EXCEPT ![t] = Idle]
    /\ UNCHANGED <<user_states, event_history, now>>

\* check_location up to the first loop: the clock is read, the state of an
\* unseen user is created, previous_zones is copied, and the iterator over
\* self.zones.values() remembers the size of the dict
check_location_begin(t) ==
    /\ tasks[t].pc = "pending" /\ tasks[t].op = "check_location"
    /\ MayRun(t)
    /\ LET user_id == tasks[t].user_id
       IN  /\ user_states' =
                 IF user_id \in DOMAIN user_states THEN user_states
                 ELSE (user_id :> [current_zones |-> {}, last_location |-> None,
                                   last_check |-> None]) @@ user_states
           /\ tasks' = [tasks EXCEPT ![t] =
                 [pc |-> "scan", op |-> "check_location", user_id |-> user_id,
                  location |-> tasks[t].location, current_time |-> now,
                  previous_zones |-> PreviousZones(user_states, user_id),
                  current_zones |-> {}, events |-> <<>>, i |-> 1, di_used |-> Len(zones)]]
    /\ UNCHANGED <<zones, event_history, now, result>>

\* one turn of "for zone in self.zones.values()".  The iterator raises
\* RuntimeError when the dict changed size since the loop began, and the
\* handler answers with an error; a dict changed without a change of size is
\* read at the iterator's position
check_location_scan(t) ==
    /\ tasks[t].pc = "scan"
    /\ MayRun(t)
    /\ LET frame == tasks[t]
       IN  IF Len(zones) # frame.di_used
           THEN /\ result' = [op |-> "check_location", user_id |-> frame.user_id,
                              location |-> frame.location, events |-> <<>>, error |-> TRUE]
                /\ tasks' = [tasks EXCEPT ![t] = Idle]
                /\ UNCHANGED <<zones, user_states, event_history, now>>
           ELSE IF frame.i > Len(zones)
           THEN /\ tasks' = [tasks EXCEPT ![t] = [frame EXCEPT !.pc = "exits"]]
                /\ UNCHANGED <<zones, user_states, event_history, now, result>>
           ELSE LET zone == zones[frame.i]
                    is_inside == is_point_in_zone(frame.location, zone)
                    emits == EmitsEnter(zone, frame.location, frame.previous_zones)
                    event == GeofenceEvent(frame.user_id, zone, ENTER, frame.location,
                                           frame.current_time, "")
                IN  /\ emits => Len(event_history) < MaxHistory
                    /\ event_history' = IF emits THEN AppendEvents(event_history, <<event>>)
                                        ELSE event_history
                    /\ tasks' = [tasks EXCEPT ![t] =
                          [frame EXCEPT !.i = @ + 1,
                                        !.current_zones = IF is_inside THEN @ \cup {zone.zone_id} ELSE @,
                                        !.events = IF emits THEN Append(@, event) ELSE @]]
                    /\ UNCHANGED <<zones, user_states, now, result>>

\* the second loop of check_location, "for zone_id in previous_zones"
check_location_exits(t) ==
    /\ tasks[t].pc = "exits"
    /\ MayRun(t)
    /\ LET frame == tasks[t]
       IN  \E previous_order \in Orderings(frame.previous_zones) :
               LET events == ExitEvents(zones, frame.user_id, frame.location,
                                        frame.current_time, previous_order, frame.current_zones)
               IN  /\ Len(event_history) + Len(events) <= MaxHistory
                   /\ event_history' = AppendEvents(event_history, events)
                   /\ tasks' = [tasks EXCEPT ![t] =
                         [frame EXCEPT !.pc = "update", !.events = @ \o events]]
    /\ UNCHANGED <<zones, user_states, now, result>>

\* the end of check_location: the user's state is written and the events
\* are returned
check_location_update(t) ==
    /\ tasks[t].pc = "update"
    /\ MayRun(t)
    /\ LET frame == tasks[t]
       IN  /\ user_states' = [user_states EXCEPT ![frame.user_id] =
                                 [current_zones |-> frame.current_zones,
                                  last_location |-> frame.location,
                                  last_check |-> frame.current_time]]
           /\ result' = [op |-> "check_location", user_id |-> frame.user_id,
                         location |-> frame.location, events |-> frame.events,
                         error |-> FALSE]
    /\ tasks' = [tasks EXCEPT ![t] = Idle]
    /\ UNCHANGED <<zones, event_history, now>>

NextServer ==
    \/ \E t \in TaskIds : \E request \in Requests : receive(t, request)
    \/ \E t \in TaskIds : create_geofence_zone(t)
    \/ \E t \in TaskIds : delete_geofence_zone(t)
    \/ \E t \in TaskIds : check_location_begin(t)
    \/ \E t \in TaskIds : check_location_scan(t)
    \/ \E t \in TaskIds : check_location_exits(t)
    \/ \E t \in TaskIds : check_location_update(t)
    \/ Tick

SpecServer == Init /\ [][NextServer]_vars

(* ------------------------------ properties ----------------------------- *)
\* the step is a call of the operation op (Tick leaves result alone)
IsStep(op) == result'.op = op /\ now' = now

\* the ids of the regions of zs whose shape contains point
Containing(zs, point) ==
    {id \in ZoneIds : HasZone(zs, id) /\ is_point_in_zone(point, ZoneOf(zs, id))}

\* the (region id, trigger) pairs of a sequence of events
EventKeys(events) ==
    {<<events[k].zone_id, events[k].trigger_type>> : k \in 1..Len(events)}

\* C1: a position report returns exactly one Enter event per region that
\* newly contains the position and has the Enter trigger, and one Exit event
\* per region that no longer contains it, still exists and has the Exit
\* trigger; nothing else
C1_EventsExact ==
    [][IsStep("check_location") =>
        LET previous == get_user_current_zones(user_states, result'.user_id)
            contained == Containing(zones, result'.location)
            enters == {id \in contained \ previous :
                          InList(ENTER, ZoneOf(zones, id).triggers)}
            exits == {id \in previous \ contained :
                          HasZone(zones, id) /\ InList(EXIT, ZoneOf(zones, id).triggers)}
            expected == {<<id, ENTER>> : id \in enters} \cup {<<id, EXIT>> : id \in exits}
        IN  /\ EventKeys(result'.events) = expected
            /\ Len(result'.events) = Cardinality(expected)]_vars

\* the second report of the scenario: outside circle A (Enter and Exit
\* triggers) after a report inside it, answered by one Exit and no Enter
C1_Witness ==
    /\ result.op = "check_location"
    /\ HasZone(zones, "A")
    /\ ZoneOf(zones, "A").triggers = <<ENTER, EXIT>>
    /\ ~is_point_in_zone(result.location, ZoneOf(zones, "A"))
    /\ EventKeys(result.events) = {<<"A", EXIT>>}
    /\ Len(result.events) = 1

\* C2: a report that repeats the report before it (same user, same
\* position, nothing in between) returns no event and appends nothing
C2_Idempotent ==
    [][(IsStep("check_location") /\ result'.repeat) =>
        (result'.events = <<>> /\ event_history' = event_history)]_vars

\* a repeated report inside a region that has the Enter trigger, after the
\* first report has emitted its Enter event
C2_Witness ==
    /\ result.op = "check_location"
    /\ result.repeat
    /\ \E i \in 1..Len(zones) :
          /\ InList(ENTER, zones[i].triggers)
          /\ is_point_in_zone(result.location, zones[i])
    /\ \E k \in 1..Len(event_history) :
          /\ event_history[k].trigger_type = ENTER
          /\ event_history[k].user_location = result.location

\* C3: after a position report the user's current zones are exactly the ids
\* of the registered regions that contain the position, and the last
\* location is the position
C3_StateAfterReport ==
    result.op = "check_location" =>
        /\ result.user_id \in DOMAIN user_states
        /\ get_user_current_zones(user_states, result.user_id)
              = Containing(zones, result.location)
        /\ user_states[result.user_id].last_location = result.location

\* a report that emitted nothing although the user is now inside a region
C3_Witness ==
    /\ result.op = "check_location"
    /\ result.events = <<>>
    /\ ~result.repeat
    /\ get_user_current_zones(user_states, result.user_id) # {}
    /\ Containing(zones, result.location) # {}

\* the distances a proximity query is asked for
QueryDistances == {0, 1000, 200000}

\* the events of one report carry only triggers their region has at that
\* moment, and they are the events the report records
EmittedWithTrigger ==
    IsStep("check_location") =>
        /\ event_history' = event_history \o result'.events
        /\ \A k \in 1..Len(result'.events) :
              LET event == result'.events[k]
              IN  /\ HasZone(zones, event.zone_id)
                  /\ InList(event.trigger_type, ZoneOf(zones, event.zone_id).triggers)

\* a proximity query returns the region z whenever z is within max_distance
NearbyReturns(zone, location, max_distance) ==
    LET nearby == get_nearby_zones(zones, location, max_distance)
    IN  EffectiveDistance(location, zone) <= max_distance
            => \E i \in 1..Len(nearby) : nearby[i][1] = zone

\* C4, as stated: no event for a region without the trigger, and a region
\* with no trigger is among the current zones of every user whose last
\* reported position is inside it, and proximity queries return it
C4_Original ==
    /\ [][EmittedWithTrigger]_vars
    /\ [](\A i \in 1..Len(zones) : zones[i].triggers = <<>> =>
            /\ \A user_id \in DOMAIN user_states :
                  is_point_in_zone(user_states[user_id].last_location, zones[i])
                      => zones[i].zone_id \in get_user_current_zones(user_states, user_id)
            /\ \A location \in Locations, max_distance \in QueryDistances :
                  NearbyReturns(zones[i], location, max_distance))

\* C4, amended: no event for a region without the trigger; a region with no
\* trigger is among the user's current zones after every report of a
\* position inside it, and proximity queries return it when it is within
\* their distance
C4_SilentRegion ==
    /\ [][EmittedWithTrigger]_vars
    /\ [](\A i \in 1..Len(zones) : zones[i].triggers = <<>> =>
            /\ (result.op = "check_location" /\ is_point_in_zone(result.location, zones[i]))
                  => zones[i].zone_id \in get_user_current_zones(user_states, result.user_id)
            /\ \A location \in Locations, max_distance \in QueryDistances :
                  NearbyReturns(zones[i], location, max_distance))

\* a report inside a region without triggers has been made: the region is
\* among the user's current zones and returned by a query, and no event was
\* recorded
C4_Witness ==
    /\ result.op = "check_location"
    /\ event_history = <<>>
    /\ \E i \in 1..Len(zones) :
          /\ zones[i].triggers = <<>>
          /\ is_point_in_zone(result.location, zones[i])
          /\ zones[i].zone_id \in get_user_current_zones(user_states, result.user_id)
          /\ \E j \in 1..Len(get_nearby_zones(zones, result.location, 0)) :
                get_nearby_zones(zones, result.location, 0)[j][1] = zones[i]

\* C5: no two events of the log have the same event id
C5_UniqueEventIds ==
    \A i, j \in 1..Len(event_history) :
        i # j => event_history[i].event_id # event_history[j].event_id

\* C6: the log only grows at its end and a recorded event never changes
C6_AppendOnly ==
    [][/\ Len(event_history) <= Len(event_history')
       /\ \A k \in 1..Len(event_history) : event_history'[k] = event_history[k]]_vars

\* a region was deleted and created again under the same id with another
\* name, and the log still holds its event with the name of that time
C6_Witness ==
    /\ result.op = "create_zone"
    /\ result.ok
    /\ \E k \in 1..Len(event_history) :
          /\ event_history[k].zone_id = result.zone_id
          /\ event_history[k].additional_data.zone_name
                # ZoneOf(zones, result.zone_id).name

\* C7: delete_zone removes the region of that id and changes nothing else:
\* not the other regions, not the users' states, not the log
C7_DeleteFrame ==
    [][IsStep("delete_zone") =>
        /\ event_history' = event_history
        /\ user_states' = user_states
        /\ \A id \in ZoneIds \ {result'.zone_id} :
              /\ HasZone(zones', id) <=> HasZone(zones, id)
              /\ HasZone(zones, id) => ZoneOf(zones', id) = ZoneOf(zones, id)]_vars

\* a region was deleted while a user was inside it: the user still lists
\* its id, the other region is still registered, the log is kept
C7_Witness ==
    /\ result.op = "delete_zone"
    /\ result.ok
    /\ ~HasZone(zones, result.zone_id)
    /\ zones # <<>>
    /\ event_history # <<>>
    /\ \E user_id \in DOMAIN user_states :
          result.zone_id \in get_user_current_zones(user_states, user_id)

\* C8: a create_zone call that returns False changes neither the registry
\* nor the users' states nor the log
C8_FailedCreateFrame ==
    [][(IsStep("create_zone") /\ ~result'.ok) =>
        /\ zones' = zones
        /\ user_states' = user_states
        /\ event_history' = event_history]_vars

\* create_zone was refused for an id that is registered, with a user
\* tracked and an event recorded
C8_Witness ==
    /\ result.op = "create_zone"
    /\ ~result.ok
    /\ HasZone(zones, result.zone_id)
    /\ user_states # [u \in {} |-> {}]
    /\ event_history # <<>>

\* C9: every circular region of the registry has a radius greater than 0
C9_CircleRadiusPositive ==
    \A i \in 1..Len(zones) :
        zones[i].fence_type = CIRCULAR =>
            zones[i].radius # None /\ zones[i].radius[1] > 0

\* C10: every rectangular region of the registry has exactly 2 bound points
\* and every polygon region at least 3
C10_BoundsWellFormed ==
    \A i \in 1..Len(zones) :
        /\ zones[i].fence_type = RECTANGULAR =>
              zones[i].bounds # None /\ Len(zones[i].bounds[1]) = 2
        /\ zones[i].fence_type = POLYGON =>
              zones[i].bounds # None /\ Len(zones[i].bounds[1]) >= 3

\* C11: delete_zone returns True exactly when the id was registered; the id
\* is not registered afterwards; for an absent id the registry is unchanged
C11_DeleteReturns ==
    [][IsStep("delete_zone") =>
        /\ result'.ok <=> HasZone(zones, result'.zone_id)
        /\ ~HasZone(zones', result'.zone_id)
        /\ ~HasZone(zones, result'.zone_id) => zones' = zones]_vars

\* delete_zone has removed one of two registered regions
C11_Witness ==
    /\ result.op = "delete_zone"
    /\ result.ok
    /\ get_zone(zones, result.zone_id) = None
    /\ Len(list_zones(zones)) = 1

\* the points proximity queries are asked for: the reported positions and
\* the centre of the circles
QueryPoints == Locations \cup {Coordinates(1, 1)}

\* C12: list_zones lists every registered region once, in the order of
\* creation: a created region goes to the end of the list and is returned by
\* get_zone, a deleted one leaves the order of the others as it is, nothing
\* else changes the list; the next report and the proximity queries test
\* every listed region
C12_ListZones ==
    /\ [](/\ \A i, j \in 1..Len(list_zones(zones)) :
                i # j => list_zones(zones)[i].zone_id # list_zones(zones)[j].zone_id
          /\ \A id \in ZoneIds :
                HasZone(zones, id) <=>
                    \E i \in 1..Len(list_zones(zones)) : list_zones(zones)[i].zone_id = id
          /\ \A i \in 1..Len(zones), location \in QueryPoints, max_distance \in QueryDistances :
                NearbyReturns(zones[i], location, max_distance))
    /\ [][/\ (IsStep("create_zone") /\ result'.ok) =>
                \E zone \in ZoneInputs(result'.zone_id) :
                    /\ list_zones(zones') = Append(list_zones(zones), zone)
                    /\ get_zone(zones', result'.zone_id) = Some(zone)
          /\ IsStep("delete_zone") =>
                list_zones(zones') =
                    SelectSeq(list_zones(zones), LAMBDA z : z.zone_id # result'.zone_id)
          /\ IsStep("check_location") =>
                \A i \in 1..Len(list_zones(zones)) :
                    is_point_in_zone(result'.location, list_zones(zones)[i]) <=>
                        list_zones(zones)[i].zone_id
                            \in get_user_current_zones(user_states', result'.user_id)
          /\ list_zones(zones') # list_zones(zones) =>
                (IsStep("create_zone") \/ IsStep("delete_zone"))]_vars

\* region A was deleted and created again after B: it is listed last, with
\* its new name, and get_zone returns it
C12_Witness ==
    /\ result.op = "create_zone"
    /\ result.ok
    /\ result.zone_id = "A"
    /\ Len(list_zones(zones)) = 2
    /\ list_zones(zones)[1].zone_id = "B"
    /\ get_zone(zones, "A") = Some(list_zones(zones)[2])
    /\ \E k \in 1..Len(event_history) :
          /\ event_history[k].zone_id = "A"
          /\ event_history[k].additional_data.zone_name # list_zones(zones)[2].name

\* C13: the pairs get_nearby_zones returns are in ascending order of their
\* distance
C13_NearbySorted ==
    \A location \in QueryPoints, max_distance \in QueryDistances :
        LET nearby == get_nearby_zones(zones, location, max_distance)
        IN  \A i \in 1..Len(nearby) - 1 : nearby[i][2] <= nearby[i + 1][2]

\* the circle was registered before the rectangle, and a query at (0, 0)
\* returns the rectangle before the circle
C13_Witness ==
    /\ Len(zones) = 2
    /\ zones[1].fence_type = CIRCULAR
    /\ LET nearby == get_nearby_zones(zones, Coordinates(0, 0), 200000)
       IN  /\ Len(nearby) = 2
           /\ nearby[1][1] = zones[2]
           /\ nearby[2][1] = zones[1]
           /\ nearby[1][2] < nearby[2][2]

\* C14: the distance reported for a circle is the distance to its boundary,
\* max(0, centre distance - radius); for the other shapes it is the distance
\* to the centre
C14_ReportedDistance ==
    \A location \in QueryPoints, max_distance \in QueryDistances :
        LET nearby == get_nearby_zones(zones, location, max_distance)
        IN  \A i \in 1..Len(nearby) :
                LET zone == nearby[i][1]
                    centre == haversine_distance(location, zone.center)
                IN  nearby[i][2] = IF zone.fence_type = CIRCULAR
                                   THEN Max(0, centre - zone.radius[1])
                                   ELSE centre

\* C15: a query at the centre of a registered circle returns the circle,
\* with distance 0, whatever the circle's radius and the query's distance
C15_CircleAtCentre ==
    \A i \in 1..Len(zones), max_distance \in QueryDistances :
        zones[i].fence_type = CIRCULAR =>
            LET nearby == get_nearby_zones(zones, zones[i].center, max_distance)
            IN  \E k \in 1..Len(nearby) : nearby[k][1] = zones[i] /\ nearby[k][2] = 0

HoursInputs == {-1, 0, 1, 24}
UserFilters == {None, Some(""), Some("u1"), Some("u2"), Some("u9")}
ZoneFilters == {None, Some("A"), Some("B"), Some("Z")}

\* C16 as stated: with hours = 0 or negative hours the history query is
\* empty in every state, the tick of an emission included.
C16_Original ==
    \A hours \in {-1, 0} :
        get_event_history(event_history, now, None, None, hours) = <<>>

\* C16 amended: negative hours return nothing; hours = 0 returns exactly the
\* events stamped with the current clock value, so the query is empty once
\* the clock has moved past the last emission and returns the events of the
\* current tick when asked within it.
C16_FutureCutoff ==
    /\ get_event_history(event_history, now, None, None, -1) = <<>>
    /\ get_event_history(event_history, now, None, None, 0)
         = SelectSeq(event_history, LAMBDA event : event.timestamp = now)
    /\ (\A k \in 1..Len(event_history) : event_history[k].timestamp < now)
         => get_event_history(event_history, now, None, None, 0) = <<>>

C16_Witness ==
    /\ event_history # <<>>
    /\ \A k \in 1..Len(event_history) : event_history[k].timestamp < now
    /\ get_event_history(event_history, now, None, None, 0) = <<>>
    /\ get_event_history(event_history, now, None, None, 1) # <<>>

\* the recorded events a history query is to return, by position
Matching(user_id, zone_id, hours) ==
    { k \in 1..Len(event_history) :
        /\ event_history[k].timestamp >= now - hours
        /\ (user_id \notin {None, Some("")} => event_history[k].user_id = user_id[1])
        /\ (zone_id \notin {None, Some("")} => event_history[k].zone_id = zone_id[1]) }

Kept(zone) ==
    <<zone.zone_id, zone.fence_type, zone.center, zone.radius, zone.bounds,
      zone.triggers, zone.metadata>>

SameRegions(zs1, zs2) ==
    /\ Len(zs1) = Len(zs2)
    /\ \A i \in 1..Len(zs1) : Kept(zs1[i]) = Kept(zs2[i])

\* C18 as stated: for every registry reachable through create_zone and
\* delete_zone, export_zones followed by import_zones into a fresh manager
\* gives the same ids with the same fence type, center, radius, bounds,
\* triggers and metadata in the same listing order.
C18_Original ==
    result.op = "import_zones" => SameRegions(result.zones, zones)

\* metadata values that JSON has a type of its own for, and bounds that are
\* missing or non-empty
JsonNative(zone) ==
    /\ \A k \in 1..Len(zone.metadata) : zone.metadata[k][2].type \in {"str", "list"}
    /\ zone.bounds # Some(<<>>)

\* C18 amended: the round trip reproduces ids, fence type, center, radius,
\* bounds, triggers, metadata and listing order for every reachable registry
\* whose zones carry JSON-native metadata and bounds that are missing or
\* non-empty.  Otherwise: a set in any metadata makes export_zones fail and
\* the import leave the fresh registry empty; without a set the ids and
\* their order are kept, an empty bounds list comes back as None and a tuple
\* comes back as a list.
C18_RoundTrip ==
    result.op = "import_zones" =>
        /\ (\A i \in 1..Len(zones) : JsonNative(zones[i]))
              => result.ok /\ SameRegions(result.zones, zones)
        /\ result.ok <=> export_zones_returns(zones)
        /\ ~result.ok => result.zones = <<>>
        /\ result.ok =>
              /\ Len(result.zones) = Len(zones)
              /\ \A i \in 1..Len(zones) :
                    /\ result.zones[i].zone_id = zones[i].zone_id
                    /\ zones[i].bounds = Some(<<>>) => result.zones[i].bounds = None
                    /\ \A k \in 1..Len(zones[i].metadata) :
                          zones[i].metadata[k][2].type = "tuple"
                             => result.zones[i].metadata[k][2].type = "list"

C18_Witness ==
    /\ result.op = "import_zones" /\ result.ok
    /\ Len(zones) = 2
    /\ zones[1].zone_id = "B" /\ zones[1].triggers = <<>> /\ zones[1].radius = Some(0)
    /\ zones[2].zone_id = "A" /\ Len(zones[2].metadata) = 2
    /\ \A i \in 1..2 : JsonNative(zones[i])
    /\ result.zones = zones

\* C19: after a position report, every registered circle with radius > 0
\* whose centre is at distance exactly radius from the reported position is
\* among the subject's current zones, and every one whose centre is farther
\* away than its radius is not.
C19_BoundaryInclusive ==
    [][IsStep("check_location") =>
        \A i \in 1..Len(zones) :
            (zones[i].fence_type = CIRCULAR /\ zones[i].radius # None /\ zones[i].radius[1] > 0) =>
                LET distance == haversine_distance(result'.location, zones[i].center)
                    current == get_user_current_zones(user_states', result'.user_id)
                IN  /\ distance = zones[i].radius[1] => zones[i].zone_id \in current
                    /\ distance > zones[i].radius[1] => zones[i].zone_id \notin current]_vars

\* a report from a point on the boundary of one circle and 17 m outside
\* another one around the same centre
C19_Witness ==
    /\ result.op = "check_location"
    /\ Len(zones) = 2
    /\ zones[1].center = zones[2].center
    /\ haversine_distance(result.location, zones[1].center) = zones[1].radius[1]
    /\ haversine_distance(result.location, zones[2].center) = zones[2].radius[1] + 17
    /\ get_user_current_zones(user_states, result.user_id) = {zones[1].zone_id}

\* point lies to the left, to the right, below or above every vertex
OutsideBox(point, bounds) ==
    \/ \A k \in 1..Len(bounds) : point.longitude < bounds[k].longitude
    \/ \A k \in 1..Len(bounds) : point.longitude > bounds[k].longitude
    \/ \A k \in 1..Len(bounds) : point.latitude < bounds[k].latitude
    \/ \A k \in 1..Len(bounds) : point.latitude > bounds[k].latitude

\* C20: for a polygon of at least 3 vertices in any order, point_in_polygon
\* is false for every point strictly outside the bounding box of the
\* vertices.
C20_OutsideBox ==
    (/\ result.op = "point_in_polygon"
     /\ Len(result.bounds) >= 3
     /\ OutsideBox(result.point, result.bounds)) => ~result.inside

\* a point left of the unit square, level with its upper edge: two edges
\* reach that latitude and the two flips cancel
C20_Witness ==
    /\ result.op = "point_in_polygon"
    /\ result.bounds = <<Coordinates(0, 0), Coordinates(0, 1), Coordinates(1, 1), Coordinates(1, 0)>>
    /\ result.point = Coordinates(1, -1)
    /\ OutsideBox(result.point, result.bounds)
    /\ PolygonCrossings(result.point, result.bounds, 1) = 2
    /\ point_in_polygon(Coordinates(1, 1), result.bounds)
    /\ ~result.inside

\* C21: a position report appends to the event history exactly the events
\* it returns, in the same order, as one block at the end of the log; every
\* Enter event of the report comes before every Exit event of the report;
\* all its events carry the reporting user, the reported position and the
\* time of the call.
C21_ReportBlock ==
    [][IsStep("check_location") =>
        LET events == result'.events
        IN  /\ Len(event_history') = Len(event_history) + Len(events)
            /\ \A k \in 1..Len(event_history) : event_history'[k] = event_history[k]
            /\ \A k \in 1..Len(events) :
                  /\ event_history'[Len(event_history) + k] = events[k]
                  /\ events[k].user_id = result'.user_id
                  /\ events[k].user_location = result'.location
                  /\ events[k].timestamp = now
            /\ \A a, b \in 1..Len(events) :
                  (events[a].trigger_type = ENTER /\ events[b].trigger_type = EXIT) => a < b]_vars

\* one report that entered one region and left another
C21_Witness ==
    /\ result.op = "check_location"
    /\ Len(result.events) = 2
    /\ result.events[1].trigger_type = ENTER
    /\ result.events[2].trigger_type = EXIT
    /\ result.events[1].zone_id # result.events[2].zone_id
    /\ event_history = result.events

\* C22: when a user's current zones hold an id that is no longer registered
\* (the region was deleted while the user was inside and not created again),
\* the user's next report, wherever it is from, returns and records no event
\* for that id and leaves the id out of the user's current zones.
C22_DeletedWhileInside ==
    [][IsStep("check_location") =>
        \A id \in PreviousZones(user_states, result'.user_id) :
            ~HasZone(zones, id) =>
                /\ \A k \in 1..Len(result'.events) : result'.events[k].zone_id # id
                /\ \A k \in (Len(event_history) + 1)..Len(event_history') :
                      event_history'[k].zone_id # id
                /\ id \notin get_user_current_zones(user_states', result'.user_id)]_vars

\* the user entered A, A was deleted, and the user reported again from the
\* very place of the entry: nothing was emitted and A is no longer current
C22_Witness ==
    /\ result.op = "check_location"
    /\ ~result.repeat
    /\ ~HasZone(zones, "A")
    /\ Len(event_history) = 1
    /\ event_history[1].zone_id = "A"
    /\ event_history[1].trigger_type = ENTER
    /\ event_history[1].user_id = result.user_id
    /\ event_history[1].user_location = result.location
    /\ result.events = <<>>
    /\ "A" \notin get_user_current_zones(user_states, result.user_id)

\* C23: a nearby query returns only regions within max_distance: the
\* distance reported for every returned pair is at most max_distance, and
\* every registered region whose distance, as defined for its shape, is at
\* most max_distance is returned.
C23_WithinDistance ==
    \A location \in QueryPoints, max_distance \in QueryDistances :
        LET nearby == get_nearby_zones(zones, location, max_distance)
        IN  /\ \A k \in 1..Len(nearby) : nearby[k][2] <= max_distance
            /\ \A i \in 1..Len(zones) :
                  EffectiveDistance(location, zones[i]) <= max_distance
                     => \E k \in 1..Len(nearby) : nearby[k][1] = zones[i]

\* the report of task t returns in this step
Returns(t) == tasks[t].pc = "update" /\ tasks'[t].pc = "idle"

\* C24: reports in flight at the same time are serialized.  No two handlers
\* are ever between their first line and their return together, and every
\* report, when it returns, has recorded and returns exactly the events, and
\* writes exactly the user state, of one undivided check_location applied to
\* the registry and the user's state as they are at that moment: the outcome
\* is that of the reports run one after the other in the order they return.
C24_Serialized ==
    /\ [](Cardinality({t \in TaskIds : tasks[t].pc \in Busy}) <= 1)
    /\ [][\A t \in TaskIds : Returns(t) =>
            LET frame == tasks[t]
                previous_zones == frame.previous_zones
                current_zones == CurrentZones(zones, frame.location)
            IN  /\ \E previous_order \in Orderings(previous_zones) :
                      LET events ==
                              EnterEvents(zones, frame.user_id, frame.location,
                                          frame.current_time, previous_zones)
                              \o ExitEvents(zones, frame.user_id, frame.location,
                                            frame.current_time, previous_order, current_zones)
                      IN  /\ result'.events = events
                          /\ Len(events) <= Len(event_history)
                          /\ SubSeq(event_history, Len(event_history) - Len(events) + 1,
                                    Len(event_history)) = events
                /\ user_states[frame.user_id].current_zones = previous_zones
                /\ user_states'[frame.user_id] =
                      UpdatedUserState(zones, frame.location, frame.current_time)]_vars

\* a second report of the same user arrived while the first one, which has
\* already recorded an event, has not returned yet
C24_Witness ==
    /\ tasks["t1"].pc \in {"exits", "update"}
    /\ tasks["t1"].events # <<>>
    /\ tasks["t2"].pc = "pending"
    /\ tasks["t2"].op = "check_location"
    /\ tasks["t2"].user_id = tasks["t1"].user_id

\* C25: a report in flight together with create_zone or delete_zone returns
\* without error and reads the registry as one snapshot: the registry does
\* not change between the first line and the return of a report, the dict
\* has the size its iterator saw, and the zones the report writes into the
\* user's state are those of the registry at that moment that contain the
\* reported position.
C25_RegistrySnapshot ==
    /\ [](result.op = "check_location" => ~result.error)
    /\ [][(\E t \in TaskIds : tasks[t].pc \in Busy) => zones' = zones]_vars
    /\ [][\A t \in TaskIds : Returns(t) =>
            /\ tasks[t].di_used = Len(zones)
            /\ get_user_current_zones(user_states', tasks[t].user_id)
                  = Containing(zones, tasks[t].location)
            /\ \A k \in 1..Len(result'.events) :
                  /\ get_zone(zones, result'.events[k].zone_id) # None
                  /\ result'.events[k].additional_data.zone_name
                        = ZoneOf(zones, result'.events[k].zone_id).name]_vars

\* a report has scanned the first of two regions and found the position in
\* it while a request to delete that region is waiting
C25_Witness ==
    /\ tasks["t1"].pc = "scan"
    /\ tasks["t1"].i = 2
    /\ Len(list_zones(zones)) = 2
    /\ tasks["t1"].current_zones = {zones[1].zone_id}
    /\ tasks["t2"].pc = "pending"
    /\ tasks["t2"].op = "delete_zone"
    /\ tasks["t2"].zone_id = zones[1].zone_id

\* C26: the log holds at most one Dwell event per user, region and stay of
\* the user in the region.  It holds none at all: check_location builds
\* events of type ENTER and EXIT only, also for regions whose triggers
\* include DWELL and for users who stay inside them over several reports.
C26_DwellAtMostOnce ==
    /\ \A i, j \in 1..Len(event_history) :
          (/\ i < j
           /\ event_history[i].trigger_type = DWELL
           /\ event_history[j].trigger_type = DWELL
           /\ event_history[i].user_id = event_history[j].user_id
           /\ event_history[i].zone_id = event_history[j].zone_id)
             => \E m \in (i + 1)..(j - 1) :
                   /\ event_history[m].user_id = event_history[i].user_id
                   /\ event_history[m].zone_id = event_history[i].zone_id
                   /\ event_history[m].trigger_type # DWELL
    /\ \A k \in 1..Len(event_history) : event_history[k].trigger_type # DWELL

\* a user entered a region with the DWELL trigger, reported again from
\* inside it at a later time, and the log holds the Enter event only
C26_Witness ==
    /\ result.op = "check_location"
    /\ result.repeat
    /\ result.events = <<>>
    /\ HasZone(zones, "A")
    /\ InList(DWELL, ZoneOf(zones, "A").triggers)
    /\ "A" \in get_user_current_zones(user_states, result.user_id)
    /\ Len(event_history) = 1
    /\ event_history[1].trigger_type = ENTER
    /\ event_history[1].zone_id = "A"
    /\ event_history[1].timestamp < user_states[result.user_id].last_check

\* C27: a report of user s changes only s's state and the end of the log:
\* the registry and the state of every other user stay as they are, every
\* event appended carries the id of s, and the first report of a user not
\* yet tracked starts from no previous zones: it returns an Enter event for
\* every region with the Enter trigger that contains the position and no
\* Exit event.
C27_ReportFrame ==
    [][IsStep("check_location") =>
        LET s == result'.user_id
        IN  /\ zones' = zones
            /\ DOMAIN user_states' = DOMAIN user_states \cup {s}
            /\ \A u \in DOMAIN user_states \ {s} : user_states'[u] = user_states[u]
            /\ \A k \in 1..Len(event_history) : event_history'[k] = event_history[k]
            /\ \A k \in (Len(event_history) + 1)..Len(event_history') :
                  event_history'[k].user_id = s
            /\ s \notin DOMAIN user_states =>
                  /\ \A k \in 1..Len(result'.events) : result'.events[k].trigger_type = ENTER
                  /\ {result'.events[k].zone_id : k \in 1..Len(result'.events)}
                        = {id \in Containing(zones, result'.location) :
                              InList(ENTER, ZoneOf(zones, id).triggers)}]_vars

\* the first report of u2, from inside a region that u1 is in already
C27_Witness ==
    /\ result.op = "check_location"
    /\ result.user_id = "u2"
    /\ Len(result.events) = 1
    /\ "u1" \in DOMAIN user_states
    /\ Len(event_history) = 2
    /\ event_history[1].user_id = "u1"
    /\ event_history[2] = result.events[1]
    /\ event_history[1].zone_id = event_history[2].zone_id
    /\ user_states["u1"].current_zones = {event_history[1].zone_id}
    /\ user_states["u1"].last_check < user_states["u2"].last_check

\* the events of the log about user_id and zone_id, in log order
PairEvents(user_id, zone_id) ==
    SelectSeq(event_history, LAMBDA e : e.user_id = user_id /\ e.zone_id = zone_id)

ReportEvents(events, zone_id, trigger_type) ==
    SelectSeq(events, LAMBDA e : e.zone_id = zone_id /\ e.trigger_type = trigger_type)

\* C29: the containment state is kept per region id and outlives the
\* region.  When a user's current zones hold an id that is registered at the
\* user's next report (also when the region was deleted and created again
\* under that id in between), a report from inside the registered region
\* emits no Enter event for the id, and a report from outside it emits one
\* Exit event for the id exactly when the registered region's triggers
\* include Exit, with the name and location ids of the registered region.
C29_StateSurvivesDeletion ==
    [][IsStep("check_location") =>
        \A id \in PreviousZones(user_states, result'.user_id) :
            HasZone(zones, id) =>
                LET zone == ZoneOf(zones, id)
                    enters == ReportEvents(result'.events, id, ENTER)
                    exits == ReportEvents(result'.events, id, EXIT)
                IN  IF is_point_in_zone(result'.location, zone)
                    THEN enters = <<>> /\ exits = <<>>
                    ELSE /\ enters = <<>>
                         /\ Len(exits) = IF InList(EXIT, zone.triggers) THEN 1 ELSE 0
                         /\ \A k \in 1..Len(exits) :
                               exits[k].additional_data =
                                  [zone_name |-> zone.name, location_ids |-> zone.location_ids]]_vars

\* the log holds an Exit event for A with the present name of A and no
\* Enter event for A: the user went in while A had no triggers, A was
\* deleted and created again with triggers, and the user then reported from
\* outside
C29_Witness ==
    /\ result.op = "check_location"
    /\ HasZone(zones, "A")
    /\ Len(event_history) = 1
    /\ result.events = event_history
    /\ event_history[1].zone_id = "A"
    /\ event_history[1].trigger_type = EXIT
    /\ event_history[1].additional_data.zone_name = ZoneOf(zones, "A").name
    /\ "A" \notin get_user_current_zones(user_states, result.user_id)

\* can the region of the k-th location be created?  It has coordinates, its
\* id is held neither by a region registered before the call nor by an
\* earlier location of the list, and the radius is one create_zone accepts
Creatable(zs, locations, default_radius, k) ==
    /\ HasCoordinates(locations[k])
    /\ default_radius # 0
    /\ ~HasZone(zs, LocationZoneId(locations[k]))
    /\ \A j \in 1..(k - 1) :
          HasCoordinates(locations[j]) =>
              LocationZoneId(locations[j]) # LocationZoneId(locations[k])

\* C30: bulk creation makes one circular region per location that has
\* coordinates: for each such location whose region can be created, a region
\* with the id "location_<id>", the location's coordinates as centre, the
\* default radius and the triggers Enter and Exit is registered afterwards
\* and is in the returned list; locations without coordinates add nothing; a
\* location whose region cannot be created neither stops the others nor
\* replaces the region that holds its id.
C30_BulkCreate ==
    [][IsStep("create_location_zones") =>
        LET locations == result'.locations
            radius == result'.default_radius
            created == result'.created_zones
            creatable == {k \in 1..Len(locations) : Creatable(zones, locations, radius, k)}
        IN  /\ \A k \in creatable :
                  LET id == LocationZoneId(locations[k])
                  IN  /\ HasZone(zones', id)
                      /\ ZoneOf(zones', id).fence_type = CIRCULAR
                      /\ ZoneOf(zones', id).center.latitude = locations[k].coordinates[1].lat[1]
                      /\ ZoneOf(zones', id).center.longitude = locations[k].coordinates[1].lng[1]
                      /\ ZoneOf(zones', id).radius = Some(radius)
                      /\ ZoneOf(zones', id).triggers = <<ENTER, EXIT>>
                      /\ \E c \in 1..Len(created) : created[c] = ZoneOf(zones', id)
            /\ Len(created) = Cardinality(creatable)
            /\ Len(zones') = Len(zones) + Len(created)
            /\ \A i \in 1..Len(zones) : zones'[i] = zones[i]
            /\ \A c \in 1..Len(created) : zones'[Len(zones) + c] = created[c]]_vars

\* a call with two locations of which the first one finds its id taken: the
\* region that holds the id is still the rectangle, and the second
\* location's circle was created after it
C30_Witness ==
    /\ result.op = "create_location_zones"
    /\ Len(result.locations) = 2
    /\ LocationZoneId(result.locations[1]) = "location_p1"
    /\ HasCoordinates(result.locations[1])
    /\ Len(zones) = 2
    /\ zones[1].zone_id = "location_p1" /\ zones[1].fence_type = RECTANGULAR
    /\ zones[2].zone_id = "location_unknown" /\ zones[2].fence_type = CIRCULAR
    /\ result.created_zones = <<zones[2]>>

====
